---------------------------- MODULE Spec2Model ----------------------------
(***************************************************************************)
(* deep-novelist: a request to generate_and_save_novel (novel_generator.py)*)
(* against an Ollama server reached through ollama_connection.py.          *)
(*                                                                         *)
(* A text is a sequence of one-character strings.  The status messages of  *)
(* the program are Japanese; each is written here as an ASCII token, with  *)
(* the original in the comment beside it.                                  *)
(***************************************************************************)
EXTENDS Naturals, Sequences, FiniteSets

(***************************************************************************)
(* Bounds of the model.                                                    *)
(***************************************************************************)
\* longest response text the model client returns in Spec
MaxTextLen == 3
\* requests served one after another in Spec
MaxRequests == 2
\* most entries in a /api/tags body in SpecModels
MaxEntries == 2
\* longest input of clean_text in SpecClean
MaxCleanLen == 5

(***************************************************************************)
(* Characters.                                                             *)
(***************************************************************************)
LF == "\n"
CR == "\r"
SP == " "
\* the backquote of a code-fence marker (the character itself cannot stand in a
\* TLA+ string)
BT == "BQ"

\* what str.strip() removes, among the characters of the model
Whitespace == {SP, LF, CR}
\* where str.splitlines() breaks a line, among the characters of the model
LineBreaks == {LF, CR}

\* the characters of clean_text's inputs in SpecClean
CleanChars == {"a", SP, LF, CR, BT}
\* the characters of a generated response in Spec
ResponseChars == {"a", LF, CR}

RECURSIVE SeqsUpTo(_, _)
SeqsUpTo(S, n) ==
    IF n = 0 THEN {<<>>}
    ELSE LET shorter == SeqsUpTo(S, n - 1)
         IN  shorter \cup {Append(s, c) : s \in {t \in shorter : Len(t) = n - 1}, c \in S}

(***************************************************************************)
(* str.find / str.rfind / str.strip / str.splitlines / str.join, as        *)
(* clean_text uses them.  Indices are 1-based; 0 stands for Python's -1.   *)
(***************************************************************************)
Fence == <<BT, BT, BT>>

OccursAt(text, pat, i) ==
    /\ i >= 1
    /\ i + Len(pat) - 1 <= Len(text)
    /\ SubSeq(text, i, i + Len(pat) - 1) = pat

\* text.find(pat, from)
Find(text, pat, from) ==
    LET hits == {i \in from..Len(text) : OccursAt(text, pat, i)}
    IN  IF hits = {} THEN 0 ELSE CHOOSE i \in hits : \A j \in hits : i <= j

\* text.rfind(pat)
RFind(text, pat) ==
    LET hits == {i \in 1..Len(text) : OccursAt(text, pat, i)}
    IN  IF hits = {} THEN 0 ELSE CHOOSE i \in hits : \A j \in hits : i >= j

\* text.strip()
Strip(text) ==
    LET solid == {i \in 1..Len(text) : text[i] \notin Whitespace}
    IN  IF solid = {} THEN <<>>
        ELSE LET first == CHOOSE i \in solid : \A j \in solid : i <= j
                 last  == CHOOSE i \in solid : \A j \in solid : i >= j
             IN  SubSeq(text, first, last)

\* text.splitlines(): LF, CR and CR LF each end a line; no empty last line
RECURSIVE SplitLines(_)
SplitLines(text) ==
    IF text = <<>> THEN <<>>
    ELSE LET brk == {i \in 1..Len(text) : text[i] \in LineBreaks}
         IN  IF brk = {} THEN <<text>>
             ELSE LET i    == CHOOSE k \in brk : \A j \in brk : k <= j
                      skip == IF text[i] = CR /\ i < Len(text) /\ text[i + 1] = LF
                              THEN i + 1 ELSE i
                  IN  <<SubSeq(text, 1, i - 1)>>
                          \o SplitLines(SubSeq(text, skip + 1, Len(text)))

\* "\n".join(lines)
RECURSIVE JoinLines(_)
JoinLines(lines) ==
    IF lines = <<>> THEN <<>>
    ELSE IF Len(lines) = 1 THEN lines[1]
    ELSE lines[1] \o <<LF>> \o JoinLines(Tail(lines))

\* lines 11-22: drop the code block's opening line and its closing marker
StripFence(text) ==
    IF Find(text, Fence, 1) # 0
    THEN LET start        == Find(text, Fence, 1)
             next_newline == Find(text, <<LF>>, start)
             opened       == IF next_newline # 0
                             THEN SubSeq(text, next_newline + 1, Len(text))
                             ELSE text
             end          == RFind(opened, Fence)
         IN  IF end # 0 THEN SubSeq(opened, 1, end - 1) ELSE opened
    ELSE text

\* CleanedLines dropping the lines that are blank (a faulty variant)
CleanedLinesCollapsed(text) ==
    SelectSeq([i \in 1..Len(SplitLines(text)) |-> Strip(SplitLines(text)[i])],
              LAMBDA line : line # <<>>)

\* lines 28-29: [line.strip() for line in text.splitlines()]
CleanedLines(text) ==
    LET lines == SplitLines(text)
    IN  [i \in 1..Len(lines) |-> Strip(lines[i])]

clean_text(text) == JoinLines(CleanedLines(Strip(StripFence(text))))

(***************************************************************************)
(* ollama_connection.py                                                    *)
(***************************************************************************)
\* ip values of a request: the UI's empty address box, and an address
Ips == {"", "192.168.1.7"}

\* get_server_url(ip)
get_server_url(ip) ==
    IF ip # "" THEN <<"http://", ip, ":11434">> ELSE <<"http://localhost:11434">>

\* what requests.get(f"{base_url}/api/version", timeout=5) can do
StatusCodes == {200, 201, 204, 301, 404, 500, 503}
ProbeOutcomes ==
    {[kind |-> "response", status |-> s] : s \in StatusCodes}
        \cup {[kind |-> "timeout", status |-> 0], [kind |-> "error", status |-> 0]}

\* check_server_availability taking every 2xx status for success (a faulty variant)
check_server_availability_2xx(outcome) ==
    IF outcome.kind = "response" THEN outcome.status \in 200..299 ELSE FALSE

\* check_server_availability(base_url), given what requests.get did
check_server_availability(outcome) ==
    IF outcome.kind = "response" THEN outcome.status = 200 ELSE FALSE

\* names of the models a server may have installed
ModelNames == {"model1", "model2"}

\* an entry of a /api/tags body: a JSON object with or without a "name" (which may
\* be empty), or a value that is no object
Entries ==
    {[obj |-> TRUE, hasName |-> TRUE, name |-> n] : n \in ModelNames \cup {""}}
        \cup {[obj |-> TRUE, hasName |-> FALSE, name |-> ""],
              [obj |-> FALSE, hasName |-> FALSE, name |-> ""]}

\* what requests.get(f"{base_url}/api/tags", timeout=5) can do, with bodies of at
\* most n entries; a parsed body is a list ("list"), {"models": [...]} ("models"), an
\* object without "models" ("nomodels"), {"models": null} ("modelsnull") or a scalar
TagsOutcomes(n) ==
    {[kind |-> "response", status |-> 200, parsable |-> TRUE, shape |-> sh, items |-> it] :
          sh \in {"list", "models"}, it \in SeqsUpTo(Entries, n)}
        \cup {[kind |-> "response", status |-> 200, parsable |-> TRUE, shape |-> sh,
               items |-> <<>>] : sh \in {"nomodels", "modelsnull", "scalar"}}
        \cup {[kind |-> "response", status |-> 200, parsable |-> FALSE, shape |-> "scalar",
               items |-> <<>>]}
        \cup {[kind |-> "response", status |-> s, parsable |-> p, shape |-> "nomodels",
               items |-> <<>>] : s \in StatusCodes \ {200}, p \in BOOLEAN}
        \cup {[kind |-> k, status |-> 0, parsable |-> FALSE, shape |-> "scalar",
               items |-> <<>>] : k \in {"timeout", "error"}}

\* model.get("name"): the name, or None (here "") when the key is missing
GetName(entry) == IF entry.hasName THEN entry.name ELSE ""

\* [model.get("name", "") for model in items if model.get("name")]; model.get
\* raises AttributeError on an entry that is no object, which the inner except
\* turns into []
RECURSIVE NamesOf(_)
NamesOf(items) ==
    IF items = <<>> THEN <<>>
    ELSE IF GetName(Head(items)) # ""
         THEN <<GetName(Head(items))>> \o NamesOf(Tail(items))
         ELSE NamesOf(Tail(items))

\* ExtractNames passing over the entries that are no objects (a faulty variant)
ExtractNamesOfObjects(items) == NamesOf(SelectSeq(items, LAMBDA e : e.obj))

ExtractNames(items) ==
    IF \E i \in 1..Len(items) : ~items[i].obj THEN <<>> ELSE NamesOf(items)

\* get_available_models(base_url), given what requests.get did
get_available_models(outcome) ==
    IF outcome.kind # "response" THEN <<>>
    ELSE IF outcome.status # 200 THEN <<>>
    ELSE IF ~outcome.parsable THEN <<>>
    ELSE IF outcome.shape = "list" THEN ExtractNames(outcome.items)
    ELSE IF outcome.shape = "models" THEN ExtractNames(outcome.items)
    \* {"models": null}: the iteration raises TypeError, the inner except returns []
    ELSE IF outcome.shape = "modelsnull" THEN <<>>
    \* unexpected shape
    ELSE <<>>


(***************************************************************************)
(* novel_generator.py: one request to generate_and_save_novel at a time.   *)
(***************************************************************************)
VARIABLES
    pc,              \* where the request is: idle, probe, tags, generate, save, done
    served,          \* requests started so far
    ip,              \* the request's ip argument
    model,           \* the request's model argument
    base_url,        \* get_server_url(ip)
    models,          \* NovelGenerator.models
    frags,           \* the fragments the server generated for this request
    generated_text,  \* generate_novel's return value
    file,            \* generated_novel.txt: whether it exists, and its bytes
    linesep,         \* os.linesep of the platform
    results,         \* the (text, status) pairs this request has handed its caller
    exc,             \* the exception raised in this request, if any
    propagated,      \* whether an exception left generate_and_save_novel
    trace,           \* the calls this request has made, in order
    prior,           \* the file as it was when this request started
    call             \* SpecModels, SpecClean: the call of the function on its own

vars == <<pc, served, ip, model, base_url, models, frags, generated_text, file,
          linesep, results, exc, propagated, trace, prior, call>>

\* model arguments: the UI's unset dropdown (None), an empty string, an installed
\* model's name, a name no server of the model has
NoneValue == "<None>"
ModelArgs == {NoneValue, "", "model1", "invalid_model"}

\* not model
Falsy(m) == m \in {NoneValue, ""}

\* the membership test left out (a faulty variant)
InListAlways(m, list) == TRUE

\* model in self.models
InList(m, list) == \E i \in 1..Len(list) : list[i] = m

\* the /api/tags outcomes of Spec: the two well-formed shapes, and each failure
ServerListings ==
    {o \in TagsOutcomes(2) :
        \/ o.items \in {<<>>,
                        <<[obj |-> TRUE, hasName |-> TRUE, name |-> "model1"]>>,
                        <<[obj |-> TRUE, hasName |-> TRUE, name |-> "model2"],
                          [obj |-> TRUE, hasName |-> TRUE, name |-> "model1"]>>}
           /\ o.status \in {0, 200, 404}}

\* the non-empty fragment sequences whose concatenation has at most n characters
RECURSIVE FragSeqs(_)
FragSeqs(n) ==
    IF n = 0 THEN {<<>>}
    ELSE {<<>>} \cup
         {<<f>> \o rest : f \in SeqsUpTo(ResponseChars, n) \ {<<>>},
                          rest \in FragSeqs(n - 1)}

RECURSIVE Concat(_)
Concat(fs) == IF fs = <<>> THEN <<>> ELSE Head(fs) \o Concat(Tail(fs))

\* what self.client.generate(model=model, prompt=prompt, stream=False) can do: raise,
\* or return the whole generated text as response["response"]
GenerateOutcomes ==
    {[kind |-> "error", frags |-> <<>>]}
        \cup {[kind |-> "response", frags |-> fs] :
                  fs \in {x \in FragSeqs(MaxTextLen) : x # <<>> /\ Len(Concat(x)) <= MaxTextLen}}

\* the connection error without the address (a faulty variant)
ConnectionErrorNoUrl(url) ==
    [type |-> "ConnectionError", text |-> <<"Ollama server cannot be reached">>]

\* the exceptions of a request, each with its str()
ConnectionError(url) ==
    \* f"Ollamaサーバー({base_url})に接続できません"
    [type |-> "ConnectionError",
     text |-> <<"Ollama server (">> \o url \o <<") cannot be reached">>]
ModelNotSelected ==
    \* "モデルが選択されていません"
    [type |-> "ValueError", text |-> <<"no model is selected">>]
ModelNotAvailable(m) ==
    \* f"選択されたモデル '{model}' は利用できません"
    [type |-> "ValueError", text |-> <<"the selected model '", m, "' is not available">>]
ResponseError == [type |-> "ResponseError", text |-> <<"server error">>]
PermissionError == [type |-> "PermissionError", text |-> <<"permission denied">>]
UnicodeEncodeError == [type |-> "UnicodeEncodeError", text |-> <<"cannot encode">>]
NoException == [type |-> "", text |-> <<>>]

\* f"小説の生成が完了しました！\n保存先: {temp_file}"
temp_file == "generated_novel.txt"
CompletedStatus == <<"generation of the novel is complete; saved to: ", temp_file>>
\* f"エラーが発生しました: {str(e)}"
ErrorStatus(e) == <<"an error occurred: ">> \o e.text

\* except ValueError as e (a faulty variant)
CaughtValueError(e) == e.type = "ValueError"

\* except Exception as e: every exception of the model is an Exception
Caught(e) == e.type # ""

\* f.write(generated_text) on a file opened with open(temp_file, "w",
\* encoding="utf-8"): each "\n" is written as os.linesep; the characters of the
\* model are ASCII, one byte each
RECURSIVE Written(_, _)
Written(text, sep) ==
    IF text = <<>> THEN <<>>
    ELSE (IF Head(text) = LF THEN sep ELSE <<Head(text)>>) \o Written(Tail(text), sep)

NoFile == [exists |-> FALSE, data |-> <<>>]
NoCall == [fn |-> "", arg |-> <<>>, ret |-> <<>>, done |-> FALSE]

Init ==
    /\ pc = "idle"
    /\ served = 0
    /\ ip = ""
    /\ model = NoneValue
    /\ base_url = <<>>
    /\ models = <<>>
    /\ frags = <<>>
    /\ generated_text = <<>>
    /\ file = NoFile
    /\ linesep \in {<<LF>>, <<CR, LF>>}
    /\ results = <<>>
    /\ exc = NoException
    /\ propagated = FALSE
    /\ trace = <<>>
    /\ prior = NoFile
    /\ call = NoCall

\* the request ends with exception e: lines 129-133
Raise(e) ==
    /\ pc' = "done"
    /\ exc' = e
    /\ IF Caught(e)
       THEN /\ results' = Append(results, [text |-> <<>>, status |-> ErrorStatus(e)])
            /\ propagated' = FALSE
       ELSE /\ results' = results
            /\ propagated' = TRUE

\* generate_and_save_novel(description, model, style, ip) is called: line 113
Start ==
    /\ pc = "idle"
    /\ served < MaxRequests
    /\ served' = served + 1
    /\ \E i \in Ips, m \in ModelArgs :
          /\ ip' = i
          /\ model' = m
          /\ base_url' = get_server_url(i)
    /\ pc' = "probe"
    /\ models' = <<>>
    /\ frags' = <<>>
    /\ generated_text' = <<>>
    /\ results' = <<>>
    /\ exc' = NoException
    /\ propagated' = FALSE
    /\ trace' = <<>>
    /\ prior' = file
    /\ UNCHANGED <<file, linesep, call>>

\* the probe tried a second time when the first is negative (a faulty variant)
ProbeRetried ==
    /\ pc = "probe"
    /\ \E o \in ProbeOutcomes, again \in ProbeOutcomes :
          LET first  == [op |-> "probe", outcome |-> o, ok |-> check_server_availability(o)]
              second == [op |-> "probe", outcome |-> again,
                         ok |-> check_server_availability(again)]
          IN  /\ trace' = IF first.ok THEN Append(trace, first)
                          ELSE trace \o <<first, second>>
              /\ IF ~first.ok /\ ~second.ok
                 THEN Raise(ConnectionError(base_url))
                 ELSE /\ pc' = "tags"
                      /\ UNCHANGED <<results, exc, propagated>>
    /\ UNCHANGED <<served, ip, model, base_url, models, frags, generated_text, file,
                   linesep, prior, call>>

\* NovelGenerator.__init__, lines 44-45: the availability probe
Probe ==
    /\ pc = "probe"
    /\ \E o \in ProbeOutcomes :
          /\ trace' = Append(trace, [op |-> "probe", outcome |-> o,
                                     ok |-> check_server_availability(o)])
          /\ IF ~check_server_availability(o)
             THEN Raise(ConnectionError(base_url))
             ELSE /\ pc' = "tags"
                  /\ UNCHANGED <<results, exc, propagated>>
    /\ UNCHANGED <<served, ip, model, base_url, models, frags, generated_text, file,
                   linesep, prior, call>>

\* whether get_available_models returned from line 64 or line 66
ListingOk(o) ==
    /\ o.kind = "response" /\ o.status = 200 /\ o.parsable
    /\ o.shape \in {"list", "models"}
    /\ \A i \in 1..Len(o.items) : o.items[i].obj

\* NovelGenerator.__init__, lines 47-48: the model list
FetchModels ==
    /\ pc = "tags"
    /\ \E o \in ServerListings :
          /\ models' = get_available_models(o)
          /\ trace' = Append(trace, [op |-> "tags", outcome |-> [kind |-> o.kind, status |-> o.status],
                                     ok |-> ListingOk(o)])
    /\ pc' = "generate"
    /\ UNCHANGED <<served, ip, model, base_url, frags, generated_text, file, linesep,
                   results, exc, propagated, prior, call>>

\* the file opened for writing before the text is generated (a faulty variant)
GenerateNovelFileOpen ==
    /\ pc = "generate"
    /\ file' = [exists |-> TRUE, data |-> <<>>]
    /\ IF Falsy(model)
       THEN /\ Raise(ModelNotSelected)
            /\ UNCHANGED <<trace, frags, generated_text>>
       ELSE IF ~InList(model, models)
       THEN /\ Raise(ModelNotAvailable(model))
            /\ UNCHANGED <<trace, frags, generated_text>>
       ELSE \E o \in GenerateOutcomes :
               /\ trace' = Append(trace, [op |-> "generate", outcome |-> [kind |-> o.kind, status |-> 0],
                                          ok |-> o.kind = "response"])
               /\ IF o.kind = "error"
                  THEN /\ Raise(ResponseError)
                       /\ UNCHANGED <<frags, generated_text>>
                  ELSE /\ frags' = o.frags
                       /\ generated_text' = clean_text(Concat(o.frags))
                       /\ pc' = "save"
                       /\ UNCHANGED <<results, exc, propagated>>
    /\ UNCHANGED <<served, ip, model, base_url, models, linesep, prior, call>>

\* NovelGenerator.generate_novel, lines 64-93
GenerateNovel ==
    /\ pc = "generate"
    /\ IF Falsy(model)
       THEN /\ Raise(ModelNotSelected)
            /\ UNCHANGED <<trace, frags, generated_text>>
       ELSE IF ~InList(model, models)
       THEN /\ Raise(ModelNotAvailable(model))
            /\ UNCHANGED <<trace, frags, generated_text>>
       ELSE \E o \in GenerateOutcomes :
               /\ trace' = Append(trace, [op |-> "generate", outcome |-> [kind |-> o.kind, status |-> 0],
                                          ok |-> o.kind = "response"])
               /\ IF o.kind = "error"
                  THEN /\ Raise(ResponseError)
                       /\ UNCHANGED <<frags, generated_text>>
                  ELSE /\ frags' = o.frags
                       /\ generated_text' = clean_text(Concat(o.frags))
                       /\ pc' = "save"
                       /\ UNCHANGED <<results, exc, propagated>>
    /\ UNCHANGED <<served, ip, model, base_url, models, file, linesep, prior, call>>

\* the file opened in append mode (a faulty variant)
SaveAppended ==
    /\ pc = "save"
    /\ \/ /\ trace' = Append(trace, [op |-> "open", outcome |-> [kind |-> "error", status |-> 0],
                                     ok |-> FALSE])
          /\ Raise(PermissionError)
          /\ UNCHANGED file
       \/ /\ trace' = Append(trace, [op |-> "open", outcome |-> [kind |-> "write error", status |-> 0],
                                     ok |-> FALSE])
          /\ Raise(UnicodeEncodeError)
          /\ file' = [exists |-> TRUE, data |-> file.data]
       \/ /\ trace' = Append(trace, [op |-> "open", outcome |-> [kind |-> "written", status |-> 0],
                                     ok |-> TRUE])
          /\ file' = [exists |-> TRUE, data |-> file.data \o Written(generated_text, linesep)]
          /\ results' = Append(results, [text |-> generated_text, status |-> CompletedStatus])
          /\ pc' = "done"
          /\ UNCHANGED <<exc, propagated>>
    /\ UNCHANGED <<served, ip, model, base_url, models, frags, generated_text, linesep,
                   prior, call>>

\* lines 120-127: open the file, write, return the text and the completion status
Save ==
    /\ pc = "save"
    /\ \/ \* open() raises: the file is as it was
          /\ trace' = Append(trace, [op |-> "open", outcome |-> [kind |-> "error", status |-> 0],
                                     ok |-> FALSE])
          /\ Raise(PermissionError)
          /\ UNCHANGED file
       \/ \* open() has truncated the file, f.write raises before a byte is written
          /\ trace' = Append(trace, [op |-> "open", outcome |-> [kind |-> "write error", status |-> 0],
                                     ok |-> FALSE])
          /\ Raise(UnicodeEncodeError)
          /\ file' = [exists |-> TRUE, data |-> <<>>]
       \/ /\ trace' = Append(trace, [op |-> "open", outcome |-> [kind |-> "written", status |-> 0],
                                     ok |-> TRUE])
          /\ file' = [exists |-> TRUE, data |-> Written(generated_text, linesep)]
          /\ results' = Append(results, [text |-> generated_text, status |-> CompletedStatus])
          /\ pc' = "done"
          /\ UNCHANGED <<exc, propagated>>
    /\ UNCHANGED <<served, ip, model, base_url, models, frags, generated_text, linesep,
                   prior, call>>

\* the caller has the result; the next request may start
Return ==
    /\ pc = "done"
    /\ served < MaxRequests
    /\ pc' = "idle"
    /\ UNCHANGED <<served, ip, model, base_url, models, frags, generated_text, file,
                   linesep, results, exc, propagated, trace, prior, call>>

Next == Start \/ Probe \/ FetchModels \/ GenerateNovel \/ Save \/ Return

Spec == Init /\ [][Next]_vars


(***************************************************************************)
(* get_available_models and clean_text on their own: the argument is drawn  *)
(* at the start, the call returns once.                                    *)
(***************************************************************************)
Quiet ==
    /\ pc = "idle"
    /\ served = 0
    /\ ip = ""
    /\ model = NoneValue
    /\ base_url = <<>>
    /\ models = <<>>
    /\ frags = <<>>
    /\ generated_text = <<>>
    /\ file = NoFile
    /\ linesep = <<LF>>
    /\ results = <<>>
    /\ exc = NoException
    /\ propagated = FALSE
    /\ trace = <<>>
    /\ prior = NoFile

request == <<pc, served, ip, model, base_url, models, frags, generated_text, file,
             linesep, results, exc, propagated, trace, prior>>

InitModels ==
    /\ Quiet
    /\ \E o \in TagsOutcomes(MaxEntries) :
          call = [fn |-> "get_available_models", arg |-> o, ret |-> <<>>, done |-> FALSE]

CallGetAvailableModels ==
    /\ call.fn = "get_available_models"
    /\ ~call.done
    /\ call' = [call EXCEPT !.ret = get_available_models(call.arg), !.done = TRUE]
    /\ UNCHANGED request

NextModels == CallGetAvailableModels

SpecModels == InitModels /\ [][NextModels]_vars

InitClean ==
    /\ Quiet
    /\ \E t \in SeqsUpTo(CleanChars, MaxCleanLen) :
          call = [fn |-> "clean_text", arg |-> t, ret |-> <<>>, done |-> FALSE]

CallCleanText ==
    /\ call.fn = "clean_text"
    /\ ~call.done
    /\ call' = [call EXCEPT !.ret = clean_text(call.arg), !.done = TRUE]
    /\ UNCHANGED request

NextClean == CallCleanText

SpecClean == InitClean /\ [][NextClean]_vars


(***************************************************************************)
(* Properties.                                                             *)
(***************************************************************************)
Last(seq) == seq[Len(seq)]

Events(op) == {i \in 1..Len(trace) : trace[i].op = op}

\* pat occurs in seq as a run of consecutive elements
Contains(seq, pat) == \E i \in 1..(Len(seq) + 1) : OccursAt(seq, pat, i) \/ pat = <<>>

IsErrorStatus(status) == status # <<>> /\ Head(status) = "an error occurred: "

Completed == pc = "done" /\ results # <<>> /\ Last(results).status = CompletedStatus

\* the request's model argument fails generate_novel's validation
InvalidModel == model \in {NoneValue, ""} \/ model \notin {models[i] : i \in 1..Len(models)}

\* "小説を生成中...", the status the tests expect with every intermediate pair
GeneratingStatus == <<"generating the novel...">>

\* C1: for a valid model and fragments f1..fn, n >= 1, the request hands its caller
\* exactly n pairs, the k-th text being f1 + ... + fk, every pair before the last
\* with the generating status and the last with the completion status.
C1_AccumulatedPairs ==
    Completed =>
        /\ Len(results) = Len(frags)
        /\ \A k \in 1..Len(results) :
              /\ results[k].text = Concat(SubSeq(frags, 1, k))
              /\ results[k].status =
                     IF k < Len(results) THEN GeneratingStatus ELSE CompletedStatus

\* C2: generate_novel with an empty or unset model, or with a model that is not in
\* the fetched model list, ends in the validation error and no generate call is
\* ever issued to the model client.
C2_InvalidModelNeverGenerates ==
    /\ InvalidModel => Events("generate") = {}
    /\ (pc = "done" /\ Events("tags") # {} /\ InvalidModel) =>
           /\ exc.type = "ValueError"
           /\ exc = IF Falsy(model) THEN ModelNotSelected ELSE ModelNotAvailable(model)
           /\ Last(trace).op = "tags"

C2_Witness ==
    /\ pc = "done"
    /\ model = "invalid_model"
    /\ models # <<>>
    /\ exc.type = "ValueError"

\* a call of the request has failed: the probe was negative, the model is invalid,
\* the model client raised, or the file could not be written
Failed ==
    \/ \E i \in 1..Len(trace) : trace[i].op \in {"probe", "generate", "open"} /\ ~trace[i].ok
    \/ Events("tags") # {} /\ InvalidModel

\* C3: whenever an exception occurs in a request, it does not leave
\* generate_and_save_novel; the request's result is the one pair of the empty text
\* and an error status that contains the exception's text, and no text is ever
\* handed over with an error status.
C3_ErrorsBecomeEmptyResult ==
    /\ ~propagated
    /\ \A k \in 1..Len(results) :
          results[k].status # CompletedStatus => results[k].text = <<>>
    /\ (pc = "done" /\ Failed) =>
           /\ Len(results) = 1
           /\ results[1].text = <<>>
           /\ IsErrorStatus(results[1].status)
           /\ exc.text # <<>>
           /\ Contains(results[1].status, exc.text)

C3_Witness ==
    /\ pc = "done"
    /\ exc.type = "ResponseError"
    /\ frags = <<>>
    /\ results = <<[text |-> <<>>, status |-> ErrorStatus(ResponseError)]>>

\* C4: the file is opened only after generation has completed without error; a
\* request that fails because the server is unreachable, the model is invalid or
\* the model client raised opens nothing and leaves the file as it was.
C4_NoWriteOnFailure ==
    /\ \A i \in Events("open") :
          \E j \in 1..(i - 1) : trace[j].op = "generate" /\ trace[j].ok
    /\ Events("open") = {} => file = prior
    /\ (pc = "done" /\ exc.type \in {"ConnectionError", "ValueError", "ResponseError"}) =>
           /\ Events("open") = {}
           /\ file = prior

C4_Witness ==
    /\ pc = "done"
    /\ exc.type = "ResponseError"
    /\ prior.exists
    /\ prior.data # <<>>
    /\ file = prior

\* reading the file back in text mode: CR LF and CR are read as LF
RECURSIVE ReadText(_)
ReadText(bytes) ==
    IF bytes = <<>> THEN <<>>
    ELSE IF Head(bytes) = CR
         THEN <<LF>> \o ReadText(IF Len(bytes) > 1 /\ bytes[2] = LF
                                 THEN Tail(Tail(bytes)) ELSE Tail(bytes))
         ELSE <<Head(bytes)>> \o ReadText(Tail(bytes))

\* C5: after a request that ends with the completion status, the file holds exactly
\* the text handed to the caller (read back, and byte for byte where the line
\* separator is LF), whatever it held before, and it was written once.
C5_FileEqualsResult ==
    Completed =>
        /\ file.exists
        /\ ReadText(file.data) = Last(results).text
        /\ linesep = <<LF>> => file.data = Last(results).text
        /\ Cardinality(Events("open")) = 1
        /\ Len(results) = 1

C5_Witness ==
    /\ Completed
    /\ prior.exists
    /\ Len(prior.data) > Len(file.data)
    /\ file.data # <<>>
    /\ linesep = <<CR, LF>>

\* C6: when the availability probe does not succeed, the request fails with a
\* connection error raised before the model list is fetched, before validation and
\* before any generation; the reported error names the endpoint and is not the
\* validation error.
C6_ConnectionErrorFirst ==
    (pc = "done" /\ \E i \in Events("probe") : ~trace[i].ok) =>
        /\ exc.type = "ConnectionError"
        /\ Len(trace) = 1
        /\ models = <<>>
        /\ Len(results) = 1
        /\ IsErrorStatus(results[1].status)
        /\ Contains(results[1].status,
                    IF ip = "" THEN <<"http://localhost:11434">>
                    ELSE <<"http://", ip, ":11434">>)
        /\ results[1].status \notin
               {ErrorStatus(ModelNotSelected), ErrorStatus(ModelNotAvailable(model))}

C6_Witness ==
    /\ pc = "done"
    /\ ip = "192.168.1.7"
    /\ model = "invalid_model"
    /\ trace = <<[op |-> "probe", outcome |-> [kind |-> "timeout", status |-> 0], ok |-> FALSE]>>
    /\ exc.type = "ConnectionError"

\* C7: a request issues at most one probe, one model-list request, one generate call
\* and one file write; after the first failure of any of them no further server
\* request is made, and exactly one error result is reported.
C7_NoRetries ==
    /\ \A op \in {"probe", "tags", "generate", "open"} : Cardinality(Events(op)) <= 1
    /\ \A i \in 1..Len(trace) :
          ~trace[i].ok =>
              \A j \in (i + 1)..Len(trace) : trace[j].op \notin {"probe", "tags", "generate"}
    /\ (pc = "done" /\ \E i \in 1..Len(trace) : ~trace[i].ok) =>
           /\ Len(results) = 1
           /\ IsErrorStatus(results[1].status)

C7_Witness ==
    /\ pc = "done"
    /\ Len(trace) = 2
    /\ trace[1].op = "probe" /\ trace[1].ok
    /\ trace[2].op = "tags" /\ ~trace[2].ok
    /\ model = "model1"
    /\ Len(results) = 1

\* the k-th entry of items, counted from the left, that has a non-empty name
RECURSIVE NthNamed(_, _)
NthNamed(items, k) ==
    LET named == {i \in 1..Len(items) : items[i].hasName /\ items[i].name # ""}
        first == CHOOSE i \in named : \A j \in named : i <= j
    IN  IF k = 1 THEN items[first]
        ELSE NthNamed(SubSeq(items, first + 1, Len(items)), k - 1)

\* the body is a sequence of objects, bare or under the "models" key of a 200 response
WellFormed(o) ==
    /\ o.kind = "response" /\ o.status = 200 /\ o.parsable
    /\ o.shape \in {"list", "models"}
    /\ \A i \in 1..Len(o.items) : o.items[i].obj

\* C8: get_available_models always returns a list: for a 200 response whose body is a
\* sequence of objects, bare or under "models", the name of every entry that has a
\* non-empty name, in the order received; for every other outcome the empty list.
C8_ModelNames ==
    call.done =>
        IF WellFormed(call.arg)
        THEN LET items == call.arg.items
                 named == {i \in 1..Len(items) : items[i].hasName /\ items[i].name # ""}
             IN  /\ Len(call.ret) = Cardinality(named)
                 /\ \A k \in 1..Len(call.ret) : call.ret[k] = NthNamed(items, k).name
        ELSE call.ret = <<>>

C8_Witness ==
    /\ call.done
    /\ call.arg.shape = "models"
    /\ call.arg.items = <<[obj |-> TRUE, hasName |-> TRUE, name |-> "model2"],
                          [obj |-> TRUE, hasName |-> TRUE, name |-> ""]>>
    /\ call.ret = <<"model2">>

\* C9: check_server_availability returns true exactly when the request to
\* /api/version completed with status 200; for every other status, a timeout or a
\* transport exception it returns false, and the request goes on or fails with the
\* connection error accordingly.
C9_AvailableIff200 ==
    \A i \in Events("probe") :
        /\ trace[i].ok <=> (trace[i].outcome.kind = "response" /\ trace[i].outcome.status = 200)
        /\ trace[i].ok \in BOOLEAN
        /\ ~trace[i].ok => pc \in {"done", "idle"} /\ exc.type = "ConnectionError"
        /\ trace[i].ok => exc.type # "ConnectionError"

C9_Witness ==
    /\ pc = "done"
    /\ \E i \in Events("probe") : trace[i].outcome.status = 204 /\ ~trace[i].ok

\* the characters of text at the positions in keep, in order
Pick(text, keep) ==
    LET F[i \in 0..Len(text)] ==
            IF i = 0 THEN <<>>
            ELSE IF i \in keep THEN Append(F[i - 1], text[i]) ELSE F[i - 1]
    IN  F[Len(text)]

\* the space at i stands inside a line: the nearest characters that are no spaces,
\* on both sides, exist and are no whitespace
InnerSpace(text, i) ==
    /\ text[i] = SP
    /\ \E l \in 1..(i - 1) :
          /\ text[l] \notin Whitespace
          /\ \A m \in (l + 1)..i : text[m] = SP
    /\ \E r \in (i + 1)..Len(text) :
          /\ text[r] \notin Whitespace
          /\ \A m \in i..(r - 1) : text[m] = SP

\* the characters of text that are no whitespace or are spaces inside a line
Kept(text) ==
    Pick(text, {i \in 1..Len(text) : text[i] \notin Whitespace \/ InnerSpace(text, i)})

\* the line breaks (LF, CR, CR LF) of text between its first and its last character
\* that is no whitespace
InnerBreaks(text) ==
    LET solid == {i \in 1..Len(text) : text[i] \notin Whitespace}
    IN  {i \in 1..Len(text) :
            /\ text[i] \in LineBreaks
            /\ ~(text[i] = CR /\ i < Len(text) /\ text[i + 1] = LF)
            /\ \E l \in solid : l < i
            /\ \E r \in solid : r > i}

\* C10: on a text without a code-fence marker, clean_text removes the whitespace
\* around the text and around each line and nothing else: the lines between the
\* first and the last non-blank line keep their number and order (blank lines
\* among them stay), and no line of the result begins or ends with whitespace.
C10_CleanTextStripsLines ==
    (call.done /\ call.fn = "clean_text" /\ Find(call.arg, Fence, 1) = 0) =>
        LET out == call.ret
        IN  /\ Pick(out, {i \in 1..Len(out) : out[i] # LF}) = Kept(call.arg)
            /\ Cardinality({i \in 1..Len(out) : out[i] = LF})
                   = Cardinality(InnerBreaks(call.arg))
            /\ \A i \in 1..Len(out) :
                  /\ out[i] # CR
                  /\ out[i] \in Whitespace =>
                        /\ i > 1 /\ i < Len(out)
                        /\ out[i] = SP => out[i - 1] # LF /\ out[i + 1] # LF

C10_Witness ==
    /\ call.done
    /\ call.fn = "clean_text"
    /\ call.arg = <<SP, "a", LF, LF, "a">>
    /\ call.ret = <<"a", LF, LF, "a">>


=============================================================================
